---- MODULE Spec2Model ----
(***************************************************************************)
(* Session/context orchestration of the robot AI brain: the ContextBuilder *)
(* session store (src/src/mcp/context_builder.py), the structured parser   *)
(* of the LLM client (src/src/llm/typhoon_client.py) and the HTTP handlers *)
(* of the API server (src/src/api/main.py).                                *)
(*                                                                         *)
(* Every handler is an async def without a single await on its path, so    *)
(* the event loop runs one handler at a time to its end: pc is the place   *)
(* of the one handler in flight ("idle" when there is none).               *)
(***************************************************************************)
EXTENDS Naturals, Sequences, FiniteSets

\* ------------------------------------------------------------------ bounds

\* HTTP requests served in one behaviour.
MaxRequests == 3
\* Requests in flight at one time in SpecLoop.
MaxInflight == 2
\* Method calls in one behaviour of SpecStore.
MaxCalls == 3
\* add_conversation_turn calls in one behaviour of SpecPrompt.
MaxSaid == 8
\* add_conversation_turn calls in one behaviour of SpecTurns.
MaxTurns == 11

\* ------------------------------------------------------- program constants

\* config["stt"]["confidence_threshold"], in hundredths (0.7).
confidence_threshold == 70
\* max_history of add_conversation_turn.
max_history == 10
\* the [-5:] slice of build_llm_context.
context_turns == 5
\* the [:3] slice of build_llm_context.
context_memories == 3

\* ------------------------------------------------------------ Python values

\* A Python value: None, a str (a sequence of tokens) or a dict (a set of
\* key/value items, one per key).
NoneV == [t |-> "none", s |-> <<>>, d |-> {}]
Str(s) == [t |-> "str", s |-> s, d |-> {}]
Dict(items) == [t |-> "dict", s |-> <<>>, d |-> items]
Item(k, v) == [k |-> k, v |-> v]

\* bool(v): None, "" and {} are falsy.
Truthy(v) == CASE v.t = "str" -> v.s # <<>>
               [] v.t = "dict" -> v.d # {}
               [] OTHER -> FALSE

\* dict.get(key, default) on the items of a dict.
DictGet(items, key, default) ==
    IF \E p \in items : p.k = key
    THEN (CHOOSE p \in items : p.k = key).v
    ELSE default

\* dict.update(new): the keys of new replace, the other keys stay.
DictUpdate(items, new) ==
    {p \in items : ~ \E q \in new : q.k = p.k} \cup new

\* seq[-n:]
LastN(seq, n) ==
    IF Len(seq) <= n THEN seq ELSE SubSeq(seq, Len(seq) - n + 1, Len(seq))

\* seq[:n]
FirstN(seq, n) ==
    IF Len(seq) <= n THEN seq ELSE SubSeq(seq, 1, n)

\* ------------------------------------------------------------ ContextBuilder

\* The dict create_session stores.
NewSession(session_id, now) ==
    [session_id |-> session_id,
     student_id |-> NoneV,
     student_name |-> NoneV,
     conversation_history |-> <<>>,
     current_location |-> NoneV,
     detected_faces |-> <<>>,
     environment_info |-> {},
     created_at |-> now,
     last_updated |-> now]

\* self.session_contexts[session_id] = value
Put(sc, session_id, value) ==
    [k \in DOMAIN sc \cup {session_id} |-> IF k = session_id THEN value ELSE sc[k]]

\* Mutant: an existing session is kept.
create_session_Keeps(sc, session_id, now) ==
    IF session_id \in DOMAIN sc THEN sc
    ELSE Put(sc, session_id, NewSession(session_id, now))

create_session(sc, session_id, now) ==
    Put(sc, session_id, NewSession(session_id, now))

\* if session_id not in self.session_contexts: self.create_session(session_id)
EnsureSession(sc, session_id, now) ==
    IF session_id \in DOMAIN sc THEN sc ELSE create_session(sc, session_id, now)

\* Mutant: last_updated is not refreshed.
update_student_identity_Stale(sc, session_id, student_id, student_name, now) ==
    LET sc1 == EnsureSession(sc, session_id, now)
    IN  Put(sc1, session_id,
            [sc1[session_id] EXCEPT !.student_id = student_id,
                                    !.student_name = student_name])

update_student_identity(sc, session_id, student_id, student_name, now) ==
    LET sc1 == EnsureSession(sc, session_id, now)
    IN  Put(sc1, session_id,
            [sc1[session_id] EXCEPT !.student_id = student_id,
                                    !.student_name = student_name,
                                    !.last_updated = now])

\* Mutant: the cap keeps the oldest turns instead of the newest.
add_conversation_turn_KeepsOldest(sc, session_id, role, content, now) ==
    LET sc1 == EnsureSession(sc, session_id, now)
        appended_to == Append(sc1[session_id].conversation_history,
                              [role |-> role, content |-> content, timestamp |-> now])
    IN  Put(sc1, session_id,
            [sc1[session_id] EXCEPT
                !.conversation_history = FirstN(appended_to, max_history),
                !.last_updated = now])

\* Mutant: the new turn is put in front of the history.
add_conversation_turn_Prepends(sc, session_id, role, content, now) ==
    LET sc1 == EnsureSession(sc, session_id, now)
        grown == <<[role |-> role, content |-> content, timestamp |-> now]>>
                 \o sc1[session_id].conversation_history
    IN  Put(sc1, session_id,
            [sc1[session_id] EXCEPT
                !.conversation_history = LastN(grown, max_history),
                !.last_updated = now])

\* Mutant: the turn is appended to a copy of the history and never stored.
add_conversation_turn_Lost(sc, session_id, role, content, now) ==
    LET sc1 == EnsureSession(sc, session_id, now)
    IN  Put(sc1, session_id, [sc1[session_id] EXCEPT !.last_updated = now])

Turn(role, content, now) ==
    [role |-> role, content |-> content, timestamp |-> now]

add_conversation_turn(sc, session_id, role, content, now) ==
    LET sc1 == EnsureSession(sc, session_id, now)
        appended == Append(sc1[session_id].conversation_history,
                           Turn(role, content, now))
        kept == IF Len(appended) > max_history
                THEN LastN(appended, max_history)
                ELSE appended
    IN  Put(sc1, session_id,
            [sc1[session_id] EXCEPT !.conversation_history = kept,
                                    !.last_updated = now])

\* Mutant: the location is stored in a session made anew.
update_location_Resets(sc, session_id, location, now) ==
    Put(sc, session_id,
        [NewSession(session_id, now) EXCEPT !.current_location = location])

\* Mutant: the location is not stored.
update_location_Dropped(sc, session_id, location, now) ==
    LET sc1 == EnsureSession(sc, session_id, now)
    IN  Put(sc1, session_id, [sc1[session_id] EXCEPT !.last_updated = now])

update_location(sc, session_id, location, now) ==
    LET sc1 == EnsureSession(sc, session_id, now)
    IN  Put(sc1, session_id,
            [sc1[session_id] EXCEPT !.current_location = location,
                                    !.last_updated = now])

\* Mutant: the new map replaces the old one.
update_environment_Replaces(sc, session_id, env_data, now) ==
    LET sc1 == EnsureSession(sc, session_id, now)
    IN  Put(sc1, session_id,
            [sc1[session_id] EXCEPT !.environment_info = env_data,
                                    !.last_updated = now])

update_environment(sc, session_id, env_data, now) ==
    LET sc1 == EnsureSession(sc, session_id, now)
    IN  Put(sc1, session_id,
            [sc1[session_id] EXCEPT
                !.environment_info = DictUpdate(@, env_data),
                !.last_updated = now])

\* self.session_contexts.get(session_id): the stored dict, or None.
get_session(sc, session_id) ==
    IF session_id \in DOMAIN sc THEN sc[session_id] ELSE NoneV

\* Mutant: the lookup is a setdefault, which stores a session for an absent id.
get_session_store_Creates(sc, session_id) ==
    IF session_id \in DOMAIN sc THEN sc ELSE create_session(sc, session_id, 0)

\* The store after get_session: dict.get leaves the dict as it is.
get_session_store(sc, session_id) == sc

\* if session / if not get_session(...): a stored dict is never empty.
SessionFound(sc, session_id) == session_id \in DOMAIN sc

\* Mutant: the whole store is emptied.
clear_session_All(sc, session_id) == [k \in {} |-> sc[k]]

\* Mutant: the test of membership is inverted and nothing is deleted.
clear_session_Noop(sc, session_id) == sc

clear_session(sc, session_id) ==
    [k \in DOMAIN sc \ {session_id} |-> sc[k]]

\* --------------------------------------------------------- text and JSON

\* A text is a sequence of tokens. TICKS is the three backquotes of a markdown
\* fence, so that a fence labelled json is <<TICKS, "json">>; NL is white space;
\* Q is the double quote; the other tokens are the JSON punctuation, the
\* literal null and plain words.
TICKS == "BQ3"
NL == "\n"
Q == "\""
FenceJson == <<TICKS, "json">>

\* The least index >= from where pat occurs in s, or 0.
IndexFrom(s, pat, from) ==
    LET hits == {i \in from .. (Len(s) - Len(pat) + 1) :
                    SubSeq(s, i, i + Len(pat) - 1) = pat}
    IN  IF hits = {} THEN 0 ELSE CHOOSE i \in hits : \A j \in hits : i <= j

\* pat in s
Contains(s, pat) == IndexFrom(s, pat, 1) # 0

\* s.split(pat)[0]
SplitFirst(s, pat) ==
    LET i == IndexFrom(s, pat, 1)
    IN  IF i = 0 THEN s ELSE SubSeq(s, 1, i - 1)

\* s.split(pat)[1], for a text that holds pat.
SplitSecond(s, pat) ==
    LET i == IndexFrom(s, pat, 1)
    IN  SplitFirst(SubSeq(s, i + Len(pat), Len(s)), pat)

\* s.strip()
RECURSIVE LStrip(_)
LStrip(s) == IF s # <<>> /\ Head(s) = NL THEN LStrip(Tail(s)) ELSE s
RECURSIVE RStrip(_)
RStrip(s) ==
    IF s # <<>> /\ s[Len(s)] = NL THEN RStrip(SubSeq(s, 1, Len(s) - 1)) ELSE s
Strip(s) == RStrip(LStrip(s))

\* The lexemes of a JSON text: white space between lexemes is dropped, a
\* string runs from a quote to the next one and may hold any token but white
\* space (a control character), and anything else that is no JSON lexeme is
\* "bad".
Lexeme(l, s) == [l |-> l, s |-> s]
RECURSIVE Lex(_, _)
Lex(text, i) ==
    IF i > Len(text) THEN <<>>
    ELSE IF text[i] = NL THEN Lex(text, i + 1)
    ELSE IF text[i] = Q THEN
        LET j == IndexFrom(text, <<Q>>, i + 1)
        IN  IF j = 0 \/ Contains(SubSeq(text, i + 1, j - 1), <<NL>>)
            THEN <<Lexeme("bad", <<>>)>>
            ELSE <<Lexeme("str", SubSeq(text, i + 1, j - 1))>> \o Lex(text, j + 1)
    ELSE IF text[i] \in {"{", "}", ":", ",", "null"}
        THEN <<Lexeme(text[i], <<>>)>> \o Lex(text, i + 1)
    ELSE <<Lexeme("bad", <<>>)>>

\* The JSON value that starts at lexeme i: a string, null or an object whose
\* members are "key": value pairs (a repeated key keeps its last value).
ParseFail == [ok |-> FALSE, v |-> NoneV, next |-> 0]
ParseOk(v, next) == [ok |-> TRUE, v |-> v, next |-> next]
RECURSIVE ParseValue(_, _), ParseMembers(_, _, _)
ParseValue(lex, i) ==
    IF i > Len(lex) THEN ParseFail
    ELSE CASE lex[i].l = "str" -> ParseOk(Str(lex[i].s), i + 1)
           [] lex[i].l = "null" -> ParseOk(NoneV, i + 1)
           [] lex[i].l = "{" ->
                IF i + 1 <= Len(lex) /\ lex[i + 1].l = "}"
                THEN ParseOk(Dict({}), i + 2)
                ELSE ParseMembers(lex, i + 1, {})
           [] OTHER -> ParseFail
ParseMembers(lex, i, acc) ==
    IF i + 1 > Len(lex) \/ lex[i].l # "str" \/ lex[i + 1].l # ":" THEN ParseFail
    ELSE LET r == ParseValue(lex, i + 2)
         IN  IF ~ r.ok \/ r.next > Len(lex) THEN ParseFail
             ELSE LET acc1 == DictUpdate(acc, {Item(lex[i].s, r.v)})
                  IN  CASE lex[r.next].l = "}" -> ParseOk(Dict(acc1), r.next + 1)
                        [] lex[r.next].l = "," -> ParseMembers(lex, r.next + 1, acc1)
                        [] OTHER -> ParseFail

\* json.loads(text): the decoded value, or ok = FALSE for a JSONDecodeError.
json_loads(text) ==
    LET lex == Lex(text, 1)
        r == ParseValue(lex, 1)
    IN  IF r.ok /\ r.next = Len(lex) + 1
        THEN [ok |-> TRUE, v |-> r.v]
        ELSE [ok |-> FALSE, v |-> NoneV]

\* The body of the if response: branch of generate_structured: the text json.loads is
\* given, after the markdown fences are removed.
StripFences(response) ==
    IF Contains(response, FenceJson)
    THEN Strip(SplitFirst(SplitSecond(response, FenceJson), <<TICKS>>))
    ELSE IF Contains(response, <<TICKS>>)
    THEN Strip(SplitFirst(SplitSecond(response, <<TICKS>>), <<TICKS>>))
    ELSE response

\* TyphoonClient.generate_structured, given what self.chat returned (None or
\* a str): the decoded JSON, or None.
generate_structured(response) ==
    IF Truthy(response)
    THEN LET r == json_loads(StripFences(response.s))
         IN  IF r.ok THEN r.v ELSE NoneV
    ELSE NoneV

\* -------------------------------------------------------- context assembly

\* ctx.get(key, "unknown") on a stored session: create_session stores every
\* key, so the stored value is returned (None when it was never set) and the
\* default is not used.
SessionGet(ctx, value, default) == value

\* The store after build_llm_context (an absent session is created).
build_llm_context_store(sc, session_id, now) == EnsureSession(sc, session_id, now)

\* One entry of relevant_memories.
RelevantMemory(mem) ==
    [content |-> mem.text, relevance_score |-> mem.score, type |-> mem.memory_type]

\* Mutant: the last records of the list are kept.
build_llm_context_LastThree(sc, session_id, retrieved_memories, now) ==
    LET ctx == EnsureSession(sc, session_id, now)[session_id]
        top == LastN(retrieved_memories, context_memories)
    IN  [student_info |->
            [id |-> SessionGet(ctx, ctx.student_id, Str(<<"unknown">>)),
             name |-> SessionGet(ctx, ctx.student_name, Str(<<"unknown">>))],
         conversation_history |-> LastN(ctx.conversation_history, context_turns),
         current_location |->
            SessionGet(ctx, ctx.current_location, Str(<<"unknown">>)),
         environment |-> ctx.environment_info,
         relevant_memories |->
            IF retrieved_memories # <<>>
            THEN [i \in 1 .. Len(top) |-> RelevantMemory(top[i])]
            ELSE <<>>]

\* The dict build_llm_context returns.
build_llm_context(sc, session_id, retrieved_memories, now) ==
    LET ctx == EnsureSession(sc, session_id, now)[session_id]
        top == FirstN(retrieved_memories, context_memories)
    IN  [student_info |->
            [id |-> SessionGet(ctx, ctx.student_id, Str(<<"unknown">>)),
             name |-> SessionGet(ctx, ctx.student_name, Str(<<"unknown">>))],
         conversation_history |-> LastN(ctx.conversation_history, context_turns),
         current_location |->
            SessionGet(ctx, ctx.current_location, Str(<<"unknown">>)),
         environment |-> ctx.environment_info,
         relevant_memories |->
            IF retrieved_memories # <<>>
            THEN [i \in 1 .. Len(top) |-> RelevantMemory(top[i])]
            ELSE <<>>]

\* str(v) inside an f-string: None is rendered as the word None.
Render(v) == IF v.t = "none" THEN <<"None">> ELSE v.s

\* One element of prompt_parts: the section it belongs to, its number in the
\* section, its role label and the text put in it.
PromptLine(section, n, label, text) ==
    [section |-> section, n |-> n, label |-> label, text |-> text]

\* the [-3:] slice of format_context_as_prompt.
prompt_turns == 3

\* Mutant: the oldest of the kept turns are rendered.
format_context_as_prompt_Oldest(llm_context) ==
    LET student_name == llm_context.student_info.name
        location == llm_context.current_location
        memories == llm_context.relevant_memories
        history == llm_context.conversation_history
        shown == FirstN(history, prompt_turns)
    IN  (IF student_name # Str(<<"unknown">>)
         THEN <<PromptLine("greeting", 0, "", Render(student_name))>>
         ELSE <<>>)
        \o
        (IF Truthy(location) /\ location # Str(<<"unknown">>)
         THEN <<PromptLine("location", 0, "", Render(location))>>
         ELSE <<>>)
        \o
        (IF memories # <<>>
         THEN <<PromptLine("memories", 0, "header", <<>>)>>
              \o [i \in 1 .. Len(memories) |->
                    PromptLine("memories", i, "", Render(memories[i].content))]
         ELSE <<>>)
        \o
        (IF history # <<>>
         THEN <<PromptLine("history", 0, "header", <<>>)>>
              \o [i \in 1 .. Len(shown) |->
                    PromptLine("history", i,
                               IF shown[i].role = "user" THEN "student" ELSE "robot",
                               Render(shown[i].content))]
         ELSE <<>>)

\* format_context_as_prompt: prompt_parts, before the join by new lines.
format_context_as_prompt(llm_context) ==
    LET student_name == llm_context.student_info.name
        location == llm_context.current_location
        memories == llm_context.relevant_memories
        history == llm_context.conversation_history
        shown == LastN(history, prompt_turns)
    IN  (IF student_name # Str(<<"unknown">>)
         THEN <<PromptLine("greeting", 0, "", Render(student_name))>>
         ELSE <<>>)
        \o
        (IF Truthy(location) /\ location # Str(<<"unknown">>)
         THEN <<PromptLine("location", 0, "", Render(location))>>
         ELSE <<>>)
        \o
        (IF memories # <<>>
         THEN <<PromptLine("memories", 0, "header", <<>>)>>
              \o [i \in 1 .. Len(memories) |->
                    PromptLine("memories", i, "", Render(memories[i].content))]
         ELSE <<>>)
        \o
        (IF history # <<>>
         THEN <<PromptLine("history", 0, "header", <<>>)>>
              \o [i \in 1 .. Len(shown) |->
                    PromptLine("history", i,
                               IF shown[i].role = "user" THEN "student" ELSE "robot",
                               Render(shown[i].content))]
         ELSE <<>>)

\* ------------------------------------------------------------------ inputs

SessionIds == {"s1", "s2"}

\* The text and the confidence (in hundredths) of a SpeechInput: a score
\* below the threshold and one at it, the lowest score that is accepted.
Utterance(text, confidence) == [text |-> Str(text), confidence |-> confidence]
SpeechInputs ==
    { Utterance(<<"go", "building", "two">>, 55),
      Utterance(<<"go", "library">>, 70) }

\* JSON texts, token by token.
JStr(words) == <<Q>> \o words \o <<Q>>
Member(key, value) == JStr(<<key>>) \o <<":">> \o value
Obj1(m1) == <<"{">> \o m1 \o <<"}">>
Obj2(m1, m2) == <<"{">> \o m1 \o <<",">> \o m2 \o <<"}">>
Obj3(m1, m2, m3) == <<"{">> \o m1 \o <<",">> \o m2 \o <<",">> \o m3 \o <<"}">>
\* A markdown fence with a label around a text.
Fenced(label, text) == <<TICKS>> \o label \o <<NL>> \o text \o <<NL, TICKS>>

\* What TyphoonClient.chat can return to generate_structured: None (the
\* request failed), the empty string, or the model's text.
ChatResults ==
    { NoneV,
      Str(<<>>),
      Str(<<"hello", "there">>),
      Str(JStr(<<"hello">>)),
      Str(Obj1(<<>>)),
      Str(Obj2(Member("response", JStr(<<"ok">>)),
               Member("intent", JStr(<<"conversation">>)))),
      Str(Fenced(<<"json">>,
                 Obj3(Member("response", JStr(<<"ok">>)),
                      Member("intent", JStr(<<"navigation">>)),
                      Member("location", JStr(<<"library">>))))),
      Str(Obj3(Member("response", JStr(<<"ok">>)),
               Member("intent", JStr(<<"navigation">>)),
               Member("location", JStr(<<>>)))),
      Str(Obj3(Member("response", JStr(<<"ok">>)),
               Member("intent", JStr(<<"conversation">>)),
               Member("location", JStr(<<"library">>)))),
      Str(Obj2(Member("intent", JStr(<<"navigation">>)),
               Member("location", JStr(<<"library">>)))),
      Str(Obj2(Member("response", JStr(<<"ok">>)),
               Member("intent", JStr(<<"navigation">>)))),
      Str(Obj1(Member("response", JStr(<<"ok">>)))),
      Str(Obj2(Member("response", JStr(<<"ok">>)),
               Member("intent", JStr(<<"chitchat">>)))),
      Str(Obj2(Member("response", <<"null">>),
               Member("intent", JStr(<<"conversation">>)))) }

\* One record of the list search_memory returns.
Memory(text, score) ==
    [text |-> Str(<<text>>), score |-> score, memory_type |-> "campus_info",
     student_id |-> "", timestamp |-> 0]

\* What the collection search can yield: no record, or records ranked by
\* descending score.
MemoryResults ==
    { <<>>,
      <<Memory("m1", 9), Memory("m2", 8), Memory("m3", 7), Memory("m4", 6)>> }

\* How a call of MilvusClient.search_memory goes: the load, the embedding or
\* the search raises, or the search yields its records.
MemoryOutcome(raised, hits) == [raised |-> raised, hits |-> hits]
MemoryOutcomes ==
    {MemoryOutcome(TRUE, <<>>)} \cup {MemoryOutcome(FALSE, m) : m \in MemoryResults}

\* Mutant: the exception leaves search_memory.
search_memory_raises_Uncaught(outcome) == outcome.raised

\* Whether an exception leaves search_memory: its body is one try block whose
\* except clause catches every Exception.
search_memory_raises(outcome) == FALSE

\* What search_memory returns: the records, or [] from the except clause.
search_memory(outcome) == IF outcome.raised THEN <<>> ELSE outcome.hits

\* The optional fields of a ContextUpdate body.
CtxBody(student_id, student_name, location, environment_data) ==
    [student_id |-> student_id, student_name |-> student_name,
     location |-> location, environment_data |-> environment_data]

Hot == Item(<<"temperature">>, Str(<<"hot">>))
Cold == Item(<<"temperature">>, Str(<<"cold">>))
Crowd == Item(<<"crowd">>, Str(<<"low">>))

CtxBodies ==
    { CtxBody(Str(<<"STD1">>), NoneV, Str(<<"lab">>), NoneV),
      CtxBody(NoneV, Str(<<"Ann">>), NoneV, Dict({Hot})),
      CtxBody(NoneV, NoneV, Str(<<>>), Dict({})),
      CtxBody(NoneV, NoneV, NoneV, Dict({Cold, Crowd})),
      CtxBody(Str(<<"STD2">>), Str(<<"Bob">>), Str(<<"hall">>), Dict({Hot})) }

\* An HTTP request: the handler it is for and the fields of its body.
Request(op, session_id, text, confidence, body) ==
    [op |-> op, session_id |-> session_id, text |-> text,
     confidence |-> confidence, body |-> body]

NoBody == CtxBody(NoneV, NoneV, NoneV, NoneV)
NoRequest == Request("none", "", NoneV, 0, NoBody)

Requests ==
    {Request("speech", sid, u.text, u.confidence, NoBody) :
        sid \in SessionIds, u \in SpeechInputs}
    \cup {Request("context", sid, NoneV, 0, b) : sid \in SessionIds, b \in CtxBodies}
    \cup {Request(op, sid, NoneV, 0, NoBody) : op \in {"get", "delete"}, sid \in SessionIds}

\* ------------------------------------------------------------------- state

VARIABLES
    session_contexts,   \* ContextBuilder.session_contexts: session id -> dict
    clock,              \* what datetime.now() reads while a handler runs
    requests,           \* HTTP requests received so far
    pc,                 \* the place of the handler in flight, or "idle"
    req,                \* the request in flight
    pre,                \* session_contexts when the request in flight arrived
    frame,              \* the local variables of process_speech
    trace,              \* the gateway calls the request in flight has made
    reply,              \* the HTTP response of the request in flight
    prev,               \* the request served before the one in flight
    payload,            \* SpecParse: the JSON text the model means to send
    parsed,             \* SpecParse: generate_structured's result, per wrapping
    appended,           \* every turn appended since the session was last
                        \* cleared, per session
    inflight,           \* SpecLoop: the requests received and not yet started
    merged,             \* the environment maps merged since the session was
                        \* last cleared, one over the other, per session
    accepted            \* the requests that passed the confidence check since
                        \* the session was last cleared, by start time, per session

vars == <<session_contexts, clock, requests, pc, req, pre, frame, trace, reply,
          prev, payload, parsed, appended, inflight, merged, accepted>>

\* The dict has no key.
NoSessions == [k \in {} |-> NoneV]

\* The locals of process_speech before they are assigned.
NoFrame ==
    [memories |-> <<>>, llm_context |-> NoneV, context_text |-> <<>>,
     chat |-> NoneV, llm_output |-> NoneV,
     response_text |-> NoneV, intent |-> NoneV, location |-> NoneV]

\* An HTTP response: its status, the ChatResponse fields of /speech/input and
\* the session of GET /session/{id}.
Response(status, response_text, intent, should_navigate, navigation_goal, session) ==
    [status |-> status, response_text |-> response_text, intent |-> intent,
     should_navigate |-> should_navigate, navigation_goal |-> navigation_goal,
     session |-> session]

NoResponse == Response(0, NoneV, NoneV, FALSE, NoneV, NoneV)
\* raise HTTPException(status_code=...)
HttpError(status) == Response(status, NoneV, NoneV, FALSE, NoneV, NoneV)
\* The ChatResponse of a rejected transcription.
Clarification ==
    Response(200, Str(<<"sorry", "say", "again">>), Str(<<"clarification">>),
             FALSE, NoneV, NoneV)
\* {"status": "success", ...} of /context/update and DELETE /session/{id}.
Success == Response(200, NoneV, NoneV, FALSE, NoneV, NoneV)

\* What is kept of a served request: its handler, session id and context
\* body, whether the session was absent when it arrived, and its status.
NoPrev == [op |-> "none", session_id |-> "", body |-> NoBody,
           absent |-> FALSE, status |-> 0]

ModelInit ==
    /\ session_contexts = NoSessions
    /\ clock = 0
    /\ requests = 0
    /\ pc = "idle"
    /\ req = NoRequest
    /\ pre = NoSessions
    /\ frame = NoFrame
    /\ trace = <<>>
    /\ reply = NoResponse
    /\ prev = NoPrev
    /\ inflight = <<>>
    /\ merged = [sid \in SessionIds |-> {}]
    /\ accepted = [sid \in SessionIds |-> <<>>]

\* Not computed yet.
Pending == [t |-> "pending", s |-> <<>>, d |-> {}]

\* The ways a chat text can carry a payload: bare, in a fence labelled json,
\* in a fence without label, and in a json fence with another fence (around
\* another JSON text) after it or before it.
Wrappings == {"bare", "json", "fence", "json_then_other", "other_then_json"}

Init ==
    /\ ModelInit
    /\ payload = <<>>
    /\ parsed = [w \in Wrappings |-> Pending]
    /\ appended = [sid \in SessionIds |-> <<>>]

parser == <<payload, parsed>>
aux == <<payload, parsed, appended, inflight, merged, accepted>>

\* ----------------------------------------------------------------- actions

\* The event loop starts the handler of the next request; the wall clock has
\* moved on since the request before.
Receive ==
    /\ pc = "idle"
    /\ requests < MaxRequests
    /\ clock' = clock + 1
    /\ \E r \in Requests :
        /\ req' = r
        /\ pc' = CASE r.op = "speech" -> "gate"
                   [] r.op = "context" -> "update_context"
                   [] r.op = "get" -> "get_session"
                   [] OTHER -> "clear_session"
    /\ requests' = requests + 1
    /\ pre' = session_contexts
    /\ frame' = NoFrame
    /\ trace' = <<>>
    /\ reply' = NoResponse
    /\ UNCHANGED <<session_contexts, prev, aux>>

\* Mutant: identity is applied when either part is given.
update_context_EitherIdentity(sc, ctx, now) ==
    LET sc1 == IF ~ SessionFound(sc, ctx.session_id)
               THEN create_session(sc, ctx.session_id, now)
               ELSE sc
        sc2 == IF Truthy(ctx.body.student_id) \/ Truthy(ctx.body.student_name)
               THEN update_student_identity(sc1, ctx.session_id,
                        ctx.body.student_id, ctx.body.student_name, now)
               ELSE sc1
        sc3 == IF Truthy(ctx.body.location)
               THEN update_location(sc2, ctx.session_id, ctx.body.location, now)
               ELSE sc2
    IN  IF Truthy(ctx.body.environment_data)
        THEN update_environment(sc3, ctx.session_id, ctx.body.environment_data.d, now)
        ELSE sc3

\* Mutant: the session is created again whether it is stored or not.
update_context_Recreates(sc, ctx, now) ==
    LET sc1 == create_session(sc, ctx.session_id, now)
        sc2 == IF Truthy(ctx.body.student_id) /\ Truthy(ctx.body.student_name)
               THEN update_student_identity(sc1, ctx.session_id,
                        ctx.body.student_id, ctx.body.student_name, now)
               ELSE sc1
        sc3 == IF Truthy(ctx.body.location)
               THEN update_location(sc2, ctx.session_id, ctx.body.location, now)
               ELSE sc2
    IN  IF Truthy(ctx.body.environment_data)
        THEN update_environment(sc3, ctx.session_id, ctx.body.environment_data.d, now)
        ELSE sc3

\* The store after the body of update_context.
update_context(sc, ctx, now) ==
    LET sc1 == IF ~ SessionFound(sc, ctx.session_id)
               THEN create_session(sc, ctx.session_id, now)
               ELSE sc
        sc2 == IF Truthy(ctx.body.student_id) /\ Truthy(ctx.body.student_name)
               THEN update_student_identity(sc1, ctx.session_id,
                        ctx.body.student_id, ctx.body.student_name, now)
               ELSE sc1
        sc3 == IF Truthy(ctx.body.location)
               THEN update_location(sc2, ctx.session_id, ctx.body.location, now)
               ELSE sc2
    IN  IF Truthy(ctx.body.environment_data)
        THEN update_environment(sc3, ctx.session_id, ctx.body.environment_data.d, now)
        ELSE sc3

\* POST /context/update
UpdateContext ==
    /\ pc = "update_context"
    /\ session_contexts' = update_context(session_contexts, req, clock)
    /\ merged' = IF Truthy(req.body.environment_data)
                 THEN [merged EXCEPT ![req.session_id] =
                         {p \in @ : \A q \in req.body.environment_data.d :
                                        q.k # p.k}
                         \cup req.body.environment_data.d]
                 ELSE merged
    /\ reply' = Success
    /\ pc' = "done"
    /\ UNCHANGED <<clock, requests, req, pre, frame, trace, prev, parser,
                   appended, inflight, accepted>>

\* GET /session/{session_id}
GetSession ==
    /\ pc = "get_session"
    /\ reply' = IF SessionFound(session_contexts, req.session_id)
                THEN Response(200, NoneV, NoneV, FALSE, NoneV,
                              get_session(session_contexts, req.session_id))
                ELSE HttpError(404)
    /\ session_contexts' = get_session_store(session_contexts, req.session_id)
    /\ pc' = "done"
    /\ UNCHANGED <<clock, requests, req, pre, frame, trace, prev, aux>>

\* DELETE /session/{session_id}
ClearSession ==
    /\ pc = "clear_session"
    /\ session_contexts' = clear_session(session_contexts, req.session_id)
    /\ appended' = [appended EXCEPT ![req.session_id] = <<>>]
    /\ merged' = [merged EXCEPT ![req.session_id] = {}]
    /\ accepted' = [accepted EXCEPT ![req.session_id] = <<>>]
    /\ reply' = Success
    /\ pc' = "done"
    /\ UNCHANGED <<clock, requests, req, pre, frame, trace, prev, parser,
                   inflight>>

\* ------------------------------------------------------- POST /speech/input

\* Mutant: a score equal to the threshold is rejected too.
BelowThreshold_OrEqual(confidence) == confidence <= confidence_threshold

\* Mutant: the comparison is inverted.
BelowThreshold_Inverted(confidence) == confidence > confidence_threshold

\* speech.confidence < config["stt"]["confidence_threshold"]
BelowThreshold(confidence) == confidence < confidence_threshold

\* The confidence check: a low score is answered at once.
Gate ==
    /\ pc = "gate"
    /\ IF BelowThreshold(req.confidence)
       THEN /\ reply' = Clarification
            /\ pc' = "done"
            /\ accepted' = accepted
       ELSE /\ reply' = reply
            /\ pc' = "user_turn"
            /\ accepted' = [accepted EXCEPT ![req.session_id] = Append(@, clock)]
    /\ UNCHANGED <<session_contexts, clock, requests, req, pre, frame, trace,
                   prev, parser, appended, inflight, merged>>

\* Add user message to context.
UserTurn ==
    /\ pc = "user_turn"
    /\ session_contexts' =
         add_conversation_turn(session_contexts, req.session_id, "user",
                               req.text, clock)
    /\ appended' = [appended EXCEPT
                      ![req.session_id] = Append(@, Turn("user", req.text, clock))]
    /\ pc' = "retrieve"
    /\ UNCHANGED <<clock, requests, req, pre, frame, trace, reply, prev, parser,
                   inflight, merged, accepted>>

\* milvus_client.search_memory answers with records, or with none after an
\* exception of its own; then build_llm_context and format_context_as_prompt.
\* An exception that left search_memory would reach the except clause of the
\* handler. The trace names the call and tells when it failed.
Retrieve ==
    /\ pc = "retrieve"
    /\ \E outcome \in MemoryOutcomes :
        /\ trace' = Append(trace, IF outcome.raised THEN "search_memory:error"
                                                    ELSE "search_memory")
        /\ IF search_memory_raises(outcome)
           THEN /\ reply' = HttpError(500)
                /\ pc' = "done"
                /\ UNCHANGED <<frame, session_contexts>>
           ELSE LET memories == search_memory(outcome)
                    llm_context ==
                        build_llm_context(session_contexts, req.session_id,
                                          memories, clock)
                IN  /\ frame' = [frame EXCEPT
                             !.memories = memories,
                             !.llm_context = llm_context,
                             !.context_text = format_context_as_prompt(llm_context)]
                    /\ session_contexts' =
                          build_llm_context_store(session_contexts,
                                                  req.session_id, clock)
                    /\ reply' = reply
                    /\ pc' = "generate"
    /\ UNCHANGED <<clock, requests, req, pre, prev, aux>>

\* The Milvus server takes the call and never answers: collection.load and
\* collection.search are called with no timeout, so search_memory never
\* returns, and the handler, which blocks the event loop, stays there.
MemoryNeverAnswers ==
    /\ pc = "retrieve"
    /\ trace' = Append(trace, "search_memory:no_answer")
    /\ pc' = "blocked"
    /\ UNCHANGED <<session_contexts, clock, requests, req, pre, frame, reply,
                   prev, aux>>

\* if not llm_output: raise Exception("LLM returned no response"), and the
\* .get calls, which only a dict has: either exception is caught by the
\* handler's except clause and becomes HTTPException(500).
ParseRaises(llm_output) == ~ Truthy(llm_output) \/ llm_output.t # "dict"

\* llm_output.get("response", <the apology>)
FallbackText == Str(<<"sorry", "not", "understood">>)

\* typhoon_client.generate_structured: TyphoonClient.chat answers with the
\* model's text, or fails and yields None; the text is decoded; then the
\* check of llm_output and the reading of its keys. The locals memories,
\* llm_context and context_text are read for the last time when the user
\* message is built, and the frame keeps them no longer.
Generate ==
    /\ pc = "generate"
    /\ \E chat \in ChatResults :
        LET llm_output == generate_structured(chat)
        IN  IF ParseRaises(llm_output)
            THEN /\ frame' = [NoFrame EXCEPT !.chat = chat,
                                           !.llm_output = llm_output]
                 /\ reply' = HttpError(500)
                 /\ pc' = "done"
            ELSE /\ frame' = [NoFrame EXCEPT
                       !.chat = chat,
                       !.llm_output = llm_output,
                       !.response_text =
                           DictGet(llm_output.d, <<"response">>, FallbackText),
                       !.intent =
                           DictGet(llm_output.d, <<"intent">>,
                                   Str(<<"conversation">>)),
                       !.location = DictGet(llm_output.d, <<"location">>, NoneV)]
                 /\ reply' = reply
                 /\ pc' = "persist"
    /\ trace' = Append(trace, "generate_structured")
    /\ UNCHANGED <<session_contexts, clock, requests, req, pre, prev, aux>>

\* The Ollama server takes the request and never answers: requests.post is
\* called with no timeout, so TyphoonClient.chat never returns.
ChatNeverAnswers ==
    /\ pc = "generate"
    /\ trace' = Append(trace, "generate_structured:no_answer")
    /\ pc' = "blocked"
    /\ UNCHANGED <<session_contexts, clock, requests, req, pre, frame, reply,
                   prev, aux>>

\* Add assistant response to context.
Persist ==
    /\ pc = "persist"
    /\ session_contexts' =
         add_conversation_turn(session_contexts, req.session_id, "assistant",
                               frame.response_text, clock)
    /\ appended' = [appended EXCEPT
                      ![req.session_id] =
                          Append(@, Turn("assistant", frame.response_text, clock))]
    /\ pc' = "resolve"
    /\ UNCHANGED <<clock, requests, req, pre, frame, trace, reply, prev, parser,
                   inflight, merged, accepted>>

\* Mutant: either condition is enough.
should_navigate_Either(intent, location) ==
    intent = Str(<<"navigation">>) \/ Truthy(location)

\* if intent == "navigation" and location
should_navigate(intent, location) ==
    intent = Str(<<"navigation">>) /\ Truthy(location)

navigation_goal(intent, location) ==
    IF should_navigate(intent, location)
    THEN Dict({Item(<<"target_location">>, location),
               Item(<<"priority">>, Str(<<"normal">>))})
    ELSE NoneV

\* ChatResponse(...): response_text and intent are declared str, and None is
\* refused by the model's validation.
ChatResponseValid(response_text, intent) ==
    response_text.t = "str" /\ intent.t = "str"

\* Prepare navigation goal if needed, and build the ChatResponse.
Resolve ==
    /\ pc = "resolve"
    /\ reply' = IF ChatResponseValid(frame.response_text, frame.intent)
                THEN Response(200, frame.response_text, frame.intent,
                              should_navigate(frame.intent, frame.location),
                              navigation_goal(frame.intent, frame.location),
                              NoneV)
                ELSE HttpError(500)
    /\ pc' = "done"
    /\ UNCHANGED <<session_contexts, clock, requests, req, pre, frame, trace,
                   prev, aux>>

\* The response is sent and the event loop is free again.
Finish ==
    /\ pc = "done"
    /\ pc' = "idle"
    /\ prev' = [op |-> req.op, session_id |-> req.session_id,
                body |-> req.body,
                absent |-> req.session_id \notin DOMAIN pre,
                status |-> reply.status]
    /\ req' = NoRequest
    /\ pre' = NoSessions
    /\ frame' = NoFrame
    /\ trace' = <<>>
    /\ reply' = NoResponse
    /\ UNCHANGED <<session_contexts, clock, requests, aux>>

Next ==
    \/ Receive
    \/ UpdateContext
    \/ GetSession
    \/ ClearSession
    \/ Gate
    \/ UserTurn
    \/ Retrieve
    \/ MemoryNeverAnswers
    \/ Generate
    \/ ChatNeverAnswers
    \/ Persist
    \/ Resolve
    \/ Finish

Spec == Init /\ [][Next]_vars

\* Every step of a handler is taken once it can be: the event loop runs a
\* started handler on, and a gateway that answers is answered to. Whether a
\* gateway answers (MemoryNeverAnswers, ChatNeverAnswers) and whether a
\* request arrives are up to the gateways and the clients.
Fairness ==
    /\ WF_vars(UpdateContext)
    /\ WF_vars(GetSession)
    /\ WF_vars(ClearSession)
    /\ WF_vars(Gate)
    /\ WF_vars(UserTurn)
    /\ WF_vars(Retrieve)
    /\ WF_vars(Generate)
    /\ WF_vars(Persist)
    /\ WF_vars(Resolve)
    /\ WF_vars(Finish)

SpecLive == Init /\ [][Next]_vars /\ Fairness

\* ------------------------------------------- several requests in flight

\* The requests that clients send while others are in flight: speech
\* requests and context updates with environment data on one session, and a
\* speech request on another.
LoopRequests ==
    {r \in Requests :
        \/ r.op = "speech" /\ r.session_id = "s1"
        \/ r.op = "speech" /\ r.session_id = "s2" /\ r.confidence >= confidence_threshold
        \/ /\ r.op = "context" /\ r.session_id = "s1"
           /\ r.body \in {CtxBody(NoneV, Str(<<"Ann">>), NoneV, Dict({Hot})),
                           CtxBody(NoneV, NoneV, NoneV, Dict({Cold, Crowd}))}}

\* seq without its i-th element.
RemoveAt(seq, i) ==
    [k \in 1 .. Len(seq) - 1 |-> IF k < i THEN seq[k] ELSE seq[k + 1]]

\* A request reaches the server, whatever the server is doing, and waits for
\* the event loop.
Arrive ==
    /\ Len(inflight) < MaxInflight
    /\ requests + Len(inflight) < MaxRequests
    /\ \E r \in LoopRequests : inflight' = Append(inflight, r)
    /\ UNCHANGED <<session_contexts, clock, requests, pc, req, pre, frame,
                   trace, reply, prev, parser, appended, merged, accepted>>

\* The event loop is free and starts the handler of one of the requests in
\* flight, in no promised order. The handlers are coroutines that never
\* await before they return (the one await of the module, in voice_interact,
\* is on process_speech itself), so the loop starts no other handler until
\* this one has returned: a handler in progress is the only one.
Start ==
    /\ pc = "idle"
    /\ clock' = clock + 1
    /\ \E i \in 1 .. Len(inflight) :
        /\ req' = inflight[i]
        /\ pc' = CASE inflight[i].op = "speech" -> "gate"
                   [] inflight[i].op = "context" -> "update_context"
                   [] inflight[i].op = "get" -> "get_session"
                   [] OTHER -> "clear_session"
        /\ inflight' = RemoveAt(inflight, i)
    /\ requests' = requests + 1
    /\ pre' = session_contexts
    /\ frame' = NoFrame
    /\ trace' = <<>>
    /\ reply' = NoResponse
    /\ UNCHANGED <<session_contexts, prev, parser, appended, merged, accepted>>

LoopNext ==
    \/ Arrive
    \/ Start
    \/ UpdateContext
    \/ Gate
    \/ UserTurn
    \/ Retrieve
    \/ MemoryNeverAnswers
    \/ Generate
    \/ ChatNeverAnswers
    \/ Persist
    \/ Resolve
    \/ Finish

SpecLoop == Init /\ [][LoopNext]_vars

\* ----------------------------------------------- the parser on its own

\* The JSON text in the fence that is not the json one.
Decoy == Obj1(Member("response", JStr(<<"decoy">>)))

\* The chat text that carries a payload in a wrapping.
Wrap(w, text) ==
    CASE w = "bare" -> text
      [] w = "json" -> Fenced(<<"json">>, text)
      [] w = "fence" -> Fenced(<<>>, text)
      [] w = "json_then_other" ->
            Fenced(<<"json">>, text) \o <<NL>> \o Fenced(<<>>, Decoy)
      [] OTHER -> Fenced(<<>>, Decoy) \o <<NL>> \o Fenced(<<"json">>, text)

\* Texts a model can mean to send: JSON objects, strings and null, with
\* white space, with a fence inside a string, and texts that are no JSON.
Payloads ==
    { Obj1(<<>>),
      Obj1(Member("response", JStr(<<"ok">>))),
      Obj2(Member("response", JStr(<<"ok">>)),
           Member("intent", JStr(<<"conversation">>))),
      Obj3(Member("response", JStr(<<"ok">>)),
           Member("intent", JStr(<<"navigation">>)),
           Member("location", JStr(<<"library">>))),
      Obj2(Member("response", <<"null">>), Member("intent", <<NL>> \o JStr(<<>>))),
      Obj2(Member("response", JStr(<<"a">>)), Member("response", JStr(<<"b">>))),
      Obj1(Member("response", Obj1(Member("text", JStr(<<"ok">>))))),
      <<NL>> \o Obj1(Member("response", JStr(<<"ok">>))) \o <<NL>>,
      Obj1(Member("response", JStr(<<"run", TICKS, "{", "}", TICKS>>))),
      Obj1(Member("response", JStr(<<TICKS, "json", "null", TICKS>>))),
      JStr(<<"ok">>),
      <<"null">>,
      <<"ok">>,
      <<"{", Q, "response", Q, ":", Q, "ok", "}">>,
      Obj1(Member("response", JStr(<<"ok">>)) \o <<",">>),
      <<>> }

ParseInit ==
    /\ ModelInit
    /\ payload \in Payloads
    /\ parsed = [w \in Wrappings |-> Pending]
    /\ appended = [sid \in SessionIds |-> <<>>]

\* generate_structured is given the payload in one more wrapping.
ParseWrapped ==
    /\ \E w \in Wrappings :
        /\ parsed[w] = Pending
        /\ parsed' = [parsed EXCEPT ![w] = generate_structured(Str(Wrap(w, payload)))]
    /\ UNCHANGED <<session_contexts, clock, requests, pc, req, pre, frame,
                   trace, reply, prev, payload, appended, inflight, merged,
                   accepted>>

ParseNext == ParseWrapped

SpecParse == ParseInit /\ [][ParseNext]_vars

\* ------------------------------------------- the history cap on its own

\* The turns of a conversation alternate: the user speaks first.
NextTurn(n) ==
    IF n % 2 = 0
    THEN [role |-> "user", content |-> Str(<<"go", "library">>)]
    ELSE [role |-> "assistant", content |-> Str(<<"ok">>)]

\* One more call of add_conversation_turn, on either session.
AppendTurn ==
    /\ clock < MaxTurns
    /\ \E sid \in SessionIds :
        LET t == NextTurn(Len(appended[sid]))
        IN  /\ session_contexts' =
                 add_conversation_turn(session_contexts, sid, t.role, t.content,
                                       clock + 1)
            /\ appended' = [appended EXCEPT
                              ![sid] = Append(@, Turn(t.role, t.content, clock + 1))]
    /\ clock' = clock + 1
    /\ UNCHANGED <<requests, pc, req, pre, frame, trace, reply, prev,
                   parser, inflight, merged, accepted>>

TurnsNext == AppendTurn

SpecTurns == Init /\ [][TurnsNext]_vars

\* ------------------------------------- the ContextBuilder on its own

\* A call of a ContextBuilder method and its arguments.
Call(op, session_id, args) == [op |-> op, session_id |-> session_id, args |-> args]

\* The partial maps given to update_environment, the empty one included.
EnvMaps == { {}, {Hot}, {Cold, Crowd} }

\* The calls a behaviour of SpecStore draws from.
StoreCalls ==
    {Call(op, sid, <<>>) : op \in {"create_session", "clear_session"},
                           sid \in SessionIds}
    \cup {Call("update_student_identity", sid,
               [student_id |-> Str(<<"STD1">>), student_name |-> Str(<<"Ann">>)]) :
            sid \in SessionIds}
    \cup {Call("update_location", sid, [location |-> Str(<<"lab">>)]) :
            sid \in SessionIds}
    \cup {Call("update_environment", sid, [env_data |-> e]) :
            sid \in SessionIds, e \in EnvMaps}
    \cup {Call("add_conversation_turn", sid,
               [role |-> "user", content |-> Str(<<"go", "library">>)]) :
            sid \in SessionIds}

\* The store after a call.
ApplyCall(sc, c, now) ==
    CASE c.op = "create_session" -> create_session(sc, c.session_id, now)
      [] c.op = "clear_session" -> clear_session(sc, c.session_id)
      [] c.op = "update_student_identity" ->
            update_student_identity(sc, c.session_id, c.args.student_id,
                                    c.args.student_name, now)
      [] c.op = "update_location" ->
            update_location(sc, c.session_id, c.args.location, now)
      [] c.op = "update_environment" ->
            update_environment(sc, c.session_id, c.args.env_data, now)
      [] OTHER ->
            add_conversation_turn(sc, c.session_id, c.args.role,
                                  c.args.content, now)

\* One call of a method; datetime.now() reads a clock that does not go back
\* and may not have moved since the call before. req holds the call and pre
\* the store before it.
StoreCall ==
    /\ requests < MaxCalls
    /\ \E c \in StoreCalls, now \in {clock, clock + 1} :
        /\ session_contexts' = ApplyCall(session_contexts, c, now)
        /\ clock' = now
        /\ req' = c
    /\ pre' = session_contexts
    /\ requests' = requests + 1
    /\ UNCHANGED <<pc, frame, trace, reply, prev, aux>>

StoreNext == StoreCall

\* What the turns of a conversation say, each turn something else.
Words == <<"one", "two", "three", "four", "five", "six", "seven", "eight", "nine">>

\* A conversation of n turns held before the calls begin: the user speaks
\* first and the roles alternate.
Conversation(n) ==
    [i \in 1 .. n |->
        Turn(IF i % 2 = 1 THEN "user" ELSE "assistant", Str(<<Words[i]>>), 0)]

\* The store when the calls begin: empty, or holding the session s1 of a
\* conversation that is one turn short of max_history.
StoreInit ==
    /\ session_contexts \in
          { NoSessions,
            Put(NoSessions, "s1",
                [NewSession("s1", 0) EXCEPT
                    !.conversation_history = Conversation(max_history - 1)]) }
    /\ clock = 0
    /\ requests = 0
    /\ pc = "idle"
    /\ req = NoRequest
    /\ pre = NoSessions
    /\ frame = NoFrame
    /\ trace = <<>>
    /\ reply = NoResponse
    /\ prev = NoPrev
    /\ inflight = <<>>
    /\ merged = [sid \in SessionIds |-> {}]
    /\ accepted = [sid \in SessionIds |-> <<>>]
    /\ payload = <<>>
    /\ parsed = [w \in Wrappings |-> Pending]
    /\ appended = [sid \in SessionIds |-> <<>>]

SpecStore == StoreInit /\ [][StoreNext]_vars

\* ------------------------------------------ the prompt on its own

\* One more turn in a session: the user speaks first and the roles alternate.
Say ==
    /\ clock < MaxSaid
    /\ \E sid \in SessionIds :
        LET n == Len(appended[sid])
            role == IF n % 2 = 0 THEN "user" ELSE "assistant"
            content == Str(<<Words[clock + 1]>>)
        IN  /\ session_contexts' =
                 add_conversation_turn(session_contexts, sid, role, content,
                                       clock + 1)
            /\ appended' = [appended EXCEPT
                              ![sid] = Append(@, Turn(role, content, clock + 1))]
            /\ req' = Call("add_conversation_turn", sid,
                           [role |-> role, content |-> content])
    /\ clock' = clock + 1
    /\ frame' = NoFrame
    /\ UNCHANGED <<requests, pc, pre, trace, reply, prev, parser, inflight,
                   merged, accepted>>

\* The lists of records given to build_llm_context: none, and the first one
\* to four records of a ranked list.
PromptMemories ==
    LET ranked == <<Memory("m1", 9), Memory("m2", 8), Memory("m3", 7),
                    Memory("m4", 6)>>
    IN  {FirstN(ranked, n) : n \in 0 .. 4}

\* build_llm_context and format_context_as_prompt for a session, as
\* process_speech calls them after the memory search.
BuildPrompt ==
    /\ req.op = "add_conversation_turn"
    /\ \E sid \in DOMAIN session_contexts, memories \in PromptMemories :
        LET llm_context == build_llm_context(session_contexts, sid, memories, clock)
        IN  /\ frame' = [NoFrame EXCEPT
                            !.memories = memories,
                            !.llm_context = llm_context,
                            !.context_text = format_context_as_prompt(llm_context)]
            /\ session_contexts' =
                  build_llm_context_store(session_contexts, sid, clock)
            /\ req' = Call("build_llm_context", sid, <<>>)
    /\ UNCHANGED <<clock, requests, pc, pre, trace, reply, prev, aux>>

PromptNext == Say \/ BuildPrompt

SpecPrompt == Init /\ [][PromptNext]_vars

\* ------------------------------------------------- POST /voice/interact

\* What WhisperSTT.transcribe_audio returns: the text and the confidence (in
\* hundredths) of a transcription, or text "" and confidence 0.0 when the
\* transcription raised.
SttFailure == Utterance(<<>>, 0)
SttResults == SpeechInputs \cup {SttFailure}

\* voice_interact until its call of process_speech, with both voice services
\* available (without one of them the handler answers 503 before it
\* transcribes): the upload is transcribed and the result becomes the
\* SpeechInput of the session given in the query.
Transcribe ==
    /\ pc = "idle"
    /\ requests < MaxRequests
    /\ clock' = clock + 1
    /\ \E sid \in SessionIds, stt_result \in SttResults :
          req' = Request("voice", sid, stt_result.text, stt_result.confidence,
                         NoBody)
    /\ pc' = "gate"
    /\ requests' = requests + 1
    /\ pre' = session_contexts
    /\ frame' = NoFrame
    /\ trace' = <<>>
    /\ reply' = NoResponse
    /\ UNCHANGED <<session_contexts, prev, aux>>

\* voice_interact after process_speech: an HTTPException of process_speech is
\* caught by the except clause and answered 500; otherwise the response text
\* is synthesized and the FileResponse built, with the text, the intent and
\* should_navigate in its headers, and an exception of either is answered
\* 500.
Synthesize ==
    /\ pc = "done"
    /\ req.op = "voice"
    /\ IF reply.status # 200
       THEN /\ reply' = HttpError(500)
            /\ trace' = trace
       ELSE \E raised \in BOOLEAN :
              /\ trace' = Append(trace, IF raised THEN "synthesize:error"
                                                  ELSE "synthesize")
              /\ reply' = IF raised
                          THEN HttpError(500)
                          ELSE Response(200, reply.response_text, reply.intent,
                                        reply.should_navigate, NoneV, NoneV)
    /\ pc' = "answered"
    /\ UNCHANGED <<session_contexts, clock, requests, req, pre, frame, prev, aux>>

\* The audio response is sent and the event loop is free again.
VoiceFinish ==
    /\ pc = "answered"
    /\ pc' = "idle"
    /\ prev' = [op |-> req.op, session_id |-> req.session_id,
                body |-> req.body,
                absent |-> req.session_id \notin DOMAIN pre,
                status |-> reply.status]
    /\ req' = NoRequest
    /\ pre' = NoSessions
    /\ frame' = NoFrame
    /\ trace' = <<>>
    /\ reply' = NoResponse
    /\ UNCHANGED <<session_contexts, clock, requests, aux>>

VoiceNext ==
    \/ Transcribe
    \/ Gate
    \/ UserTurn
    \/ Retrieve
    \/ MemoryNeverAnswers
    \/ Generate
    \/ ChatNeverAnswers
    \/ Persist
    \/ Resolve
    \/ Synthesize
    \/ VoiceFinish

SpecVoice == Init /\ [][VoiceNext]_vars

\* ------------------------------------------------------------- properties

\* The conversation history of a session id in a store (none when absent).
History(sc, session_id) ==
    IF session_id \in DOMAIN sc THEN sc[session_id].conversation_history ELSE <<>>

\* A /speech/input request has ended.
SpeechDone == pc = "done" /\ req.op = "speech"
\* ... and its confidence was strictly below / not below the threshold.
SpeechRejected == SpeechDone /\ req.confidence < confidence_threshold
SpeechAccepted == SpeechDone /\ req.confidence >= confidence_threshold

Min(a, b) == IF a <= b THEN a ELSE b

\* C1: a /speech/input request whose confidence is strictly below the
\* threshold is answered with intent "clarification" and should_navigate
\* false, makes no memory and no LLM gateway call, and leaves the
\* conversation history of its session as it was.
C1_LowConfidenceIsRejected ==
    SpeechRejected =>
        /\ reply.status = 200
        /\ reply.intent = Str(<<"clarification">>)
        /\ reply.should_navigate = FALSE
        /\ trace = <<>>
        /\ History(session_contexts, req.session_id) = History(pre, req.session_id)

\* C1 witness: a request is rejected on a session that has a history.
C1_Witness == SpeechRejected /\ History(pre, req.session_id) # <<>>

\* The LLM gateway was called and returned nothing, or a text that does not
\* decode as JSON once its fences are removed.
NoDecodableOutput ==
    /\ Len(trace) = 2
    /\ \/ ~ Truthy(frame.chat)
       \/ ~ json_loads(StripFences(frame.chat.s)).ok

\* C2: an accepted /speech/input request whose LLM output is missing or does
\* not decode still ends with a well-formed reply: status 200, a non-empty
\* apology text, intent "conversation" and should_navigate false.
C2_DegradedReplyIsWellFormed ==
    (SpeechAccepted /\ NoDecodableOutput) =>
        /\ reply.status = 200
        /\ reply.response_text.t = "str" /\ Truthy(reply.response_text)
        /\ reply.intent = Str(<<"conversation">>)
        /\ reply.should_navigate = FALSE

\* A value that is present and not empty.
PresentNonEmpty(v) == v # NoneV /\ v # Str(<<>>) /\ v # Dict({})

\* The intent and the location the decoded LLM output carries.
OutputIntent == DictGet(frame.llm_output.d, <<"intent">>, Str(<<"conversation">>))
OutputLocation == DictGet(frame.llm_output.d, <<"location">>, NoneV)

\* C3: in the reply made from a parsed LLM output, should_navigate is true
\* exactly when the intent is "navigation" and the location is present and
\* non-empty; then navigation_goal is {target_location: location, priority:
\* "normal"}, and in every other case navigation_goal is absent.
C3_NavigationIsAStrictAnd ==
    (SpeechAccepted /\ reply.status = 200) =>
        /\ reply.should_navigate
             <=> (OutputIntent = Str(<<"navigation">>)
                  /\ PresentNonEmpty(OutputLocation))
        /\ reply.should_navigate =>
             reply.navigation_goal =
                Dict({Item(<<"target_location">>, OutputLocation),
                      Item(<<"priority">>, Str(<<"normal">>))})
        /\ ~ reply.should_navigate => reply.navigation_goal = NoneV

\* C3 witness: a reply that navigates.
C3_Witness == SpeechAccepted /\ reply.status = 200 /\ reply.should_navigate

\* C4: after N calls of add_conversation_turn from an empty history, the
\* history of a session holds min(N, 10) turns, and they are the min(N, 10)
\* last appended ones in the order of their insertion; so no history holds
\* more than 10 turns.
C4_HistoryKeepsTheLastTen ==
    \A sid \in SessionIds :
        LET n == Len(appended[sid])
            history == History(session_contexts, sid)
        IN  /\ Len(history) = Min(n, 10)
            /\ history = LastN(appended[sid], 10)
            /\ Len(history) <= 10

\* C4 witness: a session after 11 calls, whose first turn is evicted.
C4_Witness ==
    \E sid \in SessionIds :
        /\ Len(appended[sid]) = 11
        /\ History(session_contexts, sid)[1] = appended[sid][2]

\* The decoded LLM output is an object with a response text and the intent
\* "conversation".
ConversationOutput ==
    /\ frame.llm_output.t = "dict"
    /\ DictGet(frame.llm_output.d, <<"response">>, NoneV).t = "str"
    /\ DictGet(frame.llm_output.d, <<"intent">>, NoneV) = Str(<<"conversation">>)

\* C5: an accepted request on a session with no prior context, whose LLM
\* output decodes to an object with a response and the intent
\* "conversation", returns that response with intent "conversation",
\* should_navigate false and no navigation goal; afterwards the session
\* exists and its history is the user turn with the request text followed by
\* the assistant turn with the returned text.
C5_FirstTurnEndToEnd ==
    (SpeechAccepted /\ req.session_id \notin DOMAIN pre /\ ConversationOutput) =>
        /\ reply.status = 200
        /\ reply.response_text = DictGet(frame.llm_output.d, <<"response">>, NoneV)
        /\ reply.intent = Str(<<"conversation">>)
        /\ reply.should_navigate = FALSE
        /\ reply.navigation_goal = NoneV
        /\ req.session_id \in DOMAIN session_contexts
        /\ LET history == History(session_contexts, req.session_id)
           IN  /\ Len(history) = 2
               /\ history[1].role = "user"
               /\ history[1].content = req.text
               /\ history[2].role = "assistant"
               /\ history[2].content = reply.response_text

\* C5 witness: such a request has ended.
C5_Witness ==
    SpeechAccepted /\ req.session_id \notin DOMAIN pre /\ ConversationOutput

\* C6: when an accepted request fails at generation or at parsing, the user
\* turn with the request text is in the history of its session once the
\* request has ended.
C6_UserTurnSurvivesFailure ==
    (SpeechAccepted /\ reply.status # 200) =>
        /\ req.session_id \in DOMAIN session_contexts
        /\ \E i \in DOMAIN History(session_contexts, req.session_id) :
             History(session_contexts, req.session_id)[i] =
                Turn("user", req.text, clock)

\* C6 witness: the LLM gateway returned nothing, on a session that was absent.
C6_Witness ==
    /\ SpeechAccepted
    /\ reply.status # 200
    /\ frame.chat = NoneV
    /\ req.session_id \notin DOMAIN pre

\* The fields of a context body are those of a stored session: identity when
\* both parts are given, location and environment data when given.
BodyApplied(body, session) ==
    /\ (Truthy(body.student_id) /\ Truthy(body.student_name)) =>
          /\ session.student_id = body.student_id
          /\ session.student_name = body.student_name
    /\ Truthy(body.location) => session.current_location = body.location
    /\ Truthy(body.environment_data) =>
          body.environment_data.d \subseteq session.environment_info

\* C7: /context/update on a session id never seen before leaves a session
\* with created_at set and every field given in the request applied, and a
\* GET /session/{id} that follows returns it.
C7_UpdateCreatesTheSession ==
    /\ (pc = "done" /\ req.op = "context" /\ req.session_id \notin DOMAIN pre) =>
          /\ reply.status = 200
          /\ req.session_id \in DOMAIN session_contexts
          /\ session_contexts[req.session_id].session_id = req.session_id
          /\ session_contexts[req.session_id].created_at = clock
          /\ BodyApplied(req.body, session_contexts[req.session_id])
    /\ (/\ pc = "done" /\ req.op = "get"
        /\ prev.op = "context" /\ prev.session_id = req.session_id
        /\ prev.absent) =>
          /\ reply.status = 200
          /\ reply.session.session_id = req.session_id
          /\ reply.session.created_at = clock - 1
          /\ BodyApplied(prev.body, reply.session)

\* C7 witness: a GET follows an update that created the session with an
\* identity, a location and environment data.
C7_Witness ==
    /\ pc = "done" /\ req.op = "get"
    /\ prev.op = "context" /\ prev.session_id = req.session_id /\ prev.absent
    /\ Truthy(prev.body.student_id) /\ Truthy(prev.body.student_name)
    /\ Truthy(prev.body.location) /\ Truthy(prev.body.environment_data)

\* C8: a lookup never creates a session: GET /session/{id} on an absent id
\* answers 404 and leaves the store as it was, the id still absent; and no
\* GET changes the store.
C8_LookupNeverCreates ==
    (pc = "done" /\ req.op = "get") =>
        /\ session_contexts = pre
        /\ req.session_id \notin DOMAIN pre =>
              /\ reply.status = 404
              /\ req.session_id \notin DOMAIN session_contexts

\* C8 witness: a GET on an absent id has ended, another session being there.
C8_Witness ==
    /\ pc = "done" /\ req.op = "get"
    /\ req.session_id \notin DOMAIN pre
    /\ DOMAIN pre # {}

\* C9: DELETE /session/{id} always answers 200; it removes the session when
\* present and nothing else, changes nothing when the id is absent, and a
\* second DELETE in a row answers 200 as well and leaves the store as the
\* first one left it.
C9_DeleteIsIdempotent ==
    (pc = "done" /\ req.op = "delete") =>
        /\ reply.status = 200
        /\ DOMAIN session_contexts = DOMAIN pre \ {req.session_id}
        /\ \A sid \in DOMAIN session_contexts : session_contexts[sid] = pre[sid]
        /\ req.session_id \notin DOMAIN pre => session_contexts = pre
        /\ (prev.op = "delete" /\ prev.session_id = req.session_id) =>
              /\ prev.status = 200
              /\ session_contexts = pre

\* C9 witness: the second of two DELETEs in a row, the first of which removed
\* a session.
C9_Witness ==
    /\ pc = "done" /\ req.op = "delete"
    /\ prev.op = "delete" /\ prev.session_id = req.session_id
    /\ ~ prev.absent

\* The payload is valid JSON.
ValidPayload == json_loads(payload).ok

\* C10: for a valid JSON payload the parser returns the same result for the
\* payload in a fence labelled json, in a fence without label and with no
\* fence; and with a json fence and another fence in the text, the result is
\* that of the json fence.
C10_FencesDoNotChangeTheResult ==
    ValidPayload =>
        /\ \A w1, w2 \in {"bare", "json", "fence"} :
              (parsed[w1] # Pending /\ parsed[w2] # Pending) =>
                 parsed[w1] = parsed[w2]
        /\ \A w \in {"json_then_other", "other_then_json"} :
              (parsed[w] # Pending /\ parsed["json"] # Pending) =>
                 parsed[w] = parsed["json"]

\* A /context/update request has ended.
ContextDone == pc = "done" /\ req.op = "context"

\* Exactly one of student_id and student_name is given in the request.
OneOfIdentity == Truthy(req.body.student_id) # Truthy(req.body.student_name)

\* C14: when a /context/update request gives only one of student_id and
\* student_name, the student_id and student_name of the session are left as
\* they were (None for a session the request creates), and the location and
\* the environment data of the same request are applied all the same.
C14_IdentityNeedsBothParts ==
    (ContextDone /\ OneOfIdentity) =>
        LET session == session_contexts[req.session_id]
            known == req.session_id \in DOMAIN pre
        IN  /\ session.student_id =
                  IF known THEN pre[req.session_id].student_id ELSE NoneV
            /\ session.student_name =
                  IF known THEN pre[req.session_id].student_name ELSE NoneV
            /\ Truthy(req.body.location) =>
                  session.current_location = req.body.location
            /\ Truthy(req.body.environment_data) =>
                  req.body.environment_data.d \subseteq session.environment_info

\* C14 witness: a request with a student_id, no student_name and a location,
\* on a session that had an identity.
C14_Witness ==
    /\ ContextDone
    /\ Truthy(req.body.student_id) /\ ~ Truthy(req.body.student_name)
    /\ Truthy(req.body.location)
    /\ req.session_id \in DOMAIN pre
    /\ Truthy(pre[req.session_id].student_id)
    /\ pre[req.session_id].student_id # req.body.student_id

\* The LLM text decoded to an object that has no response key.
DecodedWithoutResponse ==
    /\ SpeechAccepted
    /\ Len(trace) = 2
    /\ frame.llm_output.t = "dict"
    /\ ~ \E p \in frame.llm_output.d : p.k = <<"response">>

\* C16: when the LLM output decodes to an object without a response key, the
\* request does not fail: the reply carries the fallback apology, the intent
\* of the object or "conversation" when it has none, and no navigation when
\* it has no location. This is stated for every decoded object, the empty
\* one included.
C16_MissingKeysGetDefaults ==
    DecodedWithoutResponse =>
        /\ reply.status = 200
        /\ reply.response_text = FallbackText
        /\ reply.intent =
             DictGet(frame.llm_output.d, <<"intent">>, Str(<<"conversation">>))
        /\ (~ \E p \in frame.llm_output.d : p.k = <<"location">>) =>
              /\ reply.should_navigate = FALSE
              /\ reply.navigation_goal = NoneV

\* The Memory Retrieval Gateway failed during the request.
MemoryFailed == Len(trace) >= 1 /\ trace[1] = "search_memory:error"

\* The decoded LLM output is a non-empty object whose response and intent,
\* when it has them, are texts.
UsableOutput ==
    /\ frame.llm_output.t = "dict"
    /\ frame.llm_output.d # {}
    /\ DictGet(frame.llm_output.d, <<"response">>, Str(<<"x">>)).t = "str"
    /\ DictGet(frame.llm_output.d, <<"intent">>, Str(<<"x">>)).t = "str"

\* C17: a failure of the Memory Retrieval Gateway during an accepted request
\* is recovered locally: the request goes on to the LLM Gateway, and with a
\* usable LLM output it returns a well-formed reply (status 200, a response
\* text and an intent), as it does when the memory search works.
C17_MemoryFailureIsAbsorbed ==
    (SpeechAccepted /\ MemoryFailed) =>
        /\ trace = <<"search_memory:error", "generate_structured">>
        /\ UsableOutput =>
              /\ reply.status = 200
              /\ reply.response_text.t = "str" /\ Truthy(reply.response_text)
              /\ reply.intent.t = "str"

\* C17 witness: the memory search failed and the request got its reply.
C17_Witness ==
    SpeechAccepted /\ MemoryFailed /\ UsableOutput /\ reply.status = 200

\* C13: every /speech/input request is answered in the end: the calls of the
\* two gateways are bounded by a timeout, so a request that has entered the
\* handler reaches its response whether or not the gateways answer.
C13_EveryRequestIsAnswered ==
    (pc = "gate") ~> (pc = "done")

\* The environment map of a session in a store (empty when absent).
EnvironmentOf(sc, session_id) ==
    IF session_id \in DOMAIN sc THEN sc[session_id].environment_info ELSE {}

\* C15: update_environment merges: after the call every key of the partial
\* map has its new value, every key the session had that is not in the
\* partial map keeps its value, and the map holds no other key; this after
\* any sequence of calls.
C15_EnvironmentIsMerged ==
    (req.op = "update_environment") =>
        LET old == EnvironmentOf(pre, req.session_id)
            new == req.args.env_data
            now == EnvironmentOf(session_contexts, req.session_id)
        IN  /\ req.session_id \in DOMAIN session_contexts
            /\ \A p, q \in now : p.k = q.k => p = q
            /\ \A p \in new : p \in now
            /\ \A p \in old : (\A q \in new : q.k # p.k) => p \in now
            /\ \A p \in now : p \in new \/ p \in old

\* C15 witness: a map with a new temperature is merged into a session that
\* has a temperature and a crowd level.
C15_Witness ==
    /\ req.op = "update_environment"
    /\ req.args.env_data = {Hot}
    /\ EnvironmentOf(pre, req.session_id) = {Cold, Crowd}
    /\ EnvironmentOf(session_contexts, req.session_id) = {Hot, Crowd}

\* C18: create_session on an id that exists overwrites the session: history,
\* identity, location and environment are gone and the fields are the
\* defaults of a session created at the time of the call.
C18_CreateOverwrites ==
    (req.op = "create_session" /\ req.session_id \in DOMAIN pre) =>
        LET session == session_contexts[req.session_id]
        IN  /\ session.conversation_history = <<>>
            /\ session.student_id = NoneV
            /\ session.student_name = NoneV
            /\ session.current_location = NoneV
            /\ session.environment_info = {}
            /\ session.created_at = clock
            /\ session.last_updated = clock

\* C18 witness: the session created again had an identity and a history.
C18_Witness ==
    /\ req.op = "create_session"
    /\ req.session_id \in DOMAIN pre
    /\ pre[req.session_id].conversation_history # <<>>
    /\ Truthy(pre[req.session_id].student_id)

\* The four methods that change a session.
MutationOps ==
    {"update_student_identity", "update_location", "update_environment",
     "add_conversation_turn"}

\* The change a mutation call asks for is in the session.
MutationApplied(c, session, now) ==
    CASE c.op = "update_student_identity" ->
            /\ session.student_id = c.args.student_id
            /\ session.student_name = c.args.student_name
      [] c.op = "update_location" -> session.current_location = c.args.location
      [] c.op = "update_environment" ->
            c.args.env_data \subseteq session.environment_info
      [] OTHER ->
            /\ session.conversation_history # <<>>
            /\ session.conversation_history[Len(session.conversation_history)] =
                  [role |-> c.args.role, content |-> c.args.content,
                   timestamp |-> now]

\* C19: each of the four mutation methods creates the session when it is
\* absent (created_at is then the time of the call, and otherwise stays),
\* applies its change and sets last_updated to the time of the call; with a
\* clock that does not go back, last_updated never decreases and is never
\* earlier than created_at.
C19_MutationsUpsertAndRefresh ==
    /\ (req.op \in MutationOps) =>
          /\ req.session_id \in DOMAIN session_contexts
          /\ LET session == session_contexts[req.session_id]
             IN  /\ session.last_updated = clock
                 /\ session.created_at =
                       IF req.session_id \in DOMAIN pre
                       THEN pre[req.session_id].created_at
                       ELSE clock
                 /\ MutationApplied(req, session, clock)
    /\ \A sid \in DOMAIN session_contexts :
          /\ session_contexts[sid].last_updated >= session_contexts[sid].created_at
          /\ sid \in DOMAIN pre =>
                session_contexts[sid].last_updated >= pre[sid].last_updated

\* C19 witness: an identity is set in a session created at an earlier time.
C19_Witness ==
    /\ req.op = "update_student_identity"
    /\ req.session_id \in DOMAIN pre
    /\ pre[req.session_id].last_updated < clock
    /\ session_contexts[req.session_id].created_at < clock

\* A line of the prompt that renders a turn.
IsTurnLine(line) == line.section = "history" /\ line.n > 0

\* The label format_context_as_prompt gives a role.
RoleLabel(role) == IF role = "user" THEN "student" ELSE "robot"

\* C20: build_llm_context keeps the last 5 turns of the history of the
\* session, in order, and format_context_as_prompt renders the last 3 of the
\* turns kept, in order, each with the label of its role.
C20_FiveKeptThreeRendered ==
    (req.op = "build_llm_context") =>
        LET history == session_contexts[req.session_id].conversation_history
            kept == frame.llm_context.conversation_history
            lines == SelectSeq(frame.context_text, IsTurnLine)
            n == Len(history)
            k == Min(n, 5)
            r == Min(k, 3)
        IN  /\ Len(kept) = k
            /\ \A i \in 1 .. k : kept[i] = history[n - k + i]
            /\ Len(lines) = r
            /\ \A i \in 1 .. r :
                  /\ lines[i].text = kept[k - r + i].content.s
                  /\ lines[i].label = RoleLabel(kept[k - r + i].role)

\* C20 witness: the prompt of a session with seven turns, the first of them
\* said by the user.
C20_Witness ==
    /\ req.op = "build_llm_context"
    /\ Len(session_contexts[req.session_id].conversation_history) = 7
    /\ Len(frame.llm_context.conversation_history) = 5
    /\ Len(SelectSeq(frame.context_text, IsTurnLine)) = 3

\* C11: with several requests in flight on one session, whatever order the
\* server takes them in, no turn that was appended is missing from the
\* history (but for the cap of 10) and no environment key that was merged is
\* missing or stale: the session is what the mutations give when applied one
\* after the other in the order the handlers ran.
C11_MutationsAreSerialized ==
    \A sid \in SessionIds :
        /\ History(session_contexts, sid) = LastN(appended[sid], 10)
        /\ EnvironmentOf(session_contexts, sid) = merged[sid]

\* C11 witness: a speech request on a session ends after an environment
\* update of that session, while another update of it is in flight.
C11_Witness ==
    /\ SpeechAccepted
    /\ reply.status = 200
    /\ merged[req.session_id] # {}
    /\ \E i \in DOMAIN inflight :
          /\ inflight[i].session_id = req.session_id
          /\ inflight[i].op = "context"

\* The place of a request in the order of acceptance.
Pos(seq, x) == CHOOSE k \in DOMAIN seq : seq[k] = x

\* C12: in a session the turns are in the order in which their requests
\* passed the confidence check: every turn belongs to an accepted request,
\* and a turn of a request accepted earlier is before every turn of a request
\* accepted later.
C12_TurnsFollowAcceptance ==
    \A sid \in SessionIds :
        LET history == History(session_contexts, sid)
            order == accepted[sid]
        IN  /\ \A k, l \in DOMAIN order : k < l => order[k] # order[l]
            /\ \A i \in DOMAIN history :
                  \E k \in DOMAIN order : order[k] = history[i].timestamp
            /\ \A i, j \in DOMAIN history :
                  Pos(order, history[i].timestamp) < Pos(order, history[j].timestamp)
                     => i < j

\* C12 witness: a session holds the four turns of two accepted requests,
\* with a third request on it in flight.
C12_Witness ==
    /\ pc = "done"
    /\ Len(accepted[req.session_id]) = 2
    /\ Len(History(session_contexts, req.session_id)) = 4
    /\ \E i \in DOMAIN inflight : inflight[i].session_id = req.session_id

\* C21: build_llm_context takes at most 3 memory records, the first 3 of the
\* list it is given in the order of the list; a shorter list is taken whole
\* and an empty one gives an empty relevant_memories.
C21_FirstThreeMemories ==
    (req.op = "build_llm_context") =>
        LET given == frame.memories
            taken == frame.llm_context.relevant_memories
            k == Min(Len(given), 3)
        IN  /\ Len(taken) = k
            /\ \A i \in 1 .. k :
                  /\ taken[i].content = given[i].text
                  /\ taken[i].relevance_score = given[i].score
                  /\ taken[i].type = given[i].memory_type

\* C21 witness: four records are given and three are taken.
C21_Witness ==
    /\ req.op = "build_llm_context"
    /\ Len(frame.memories) = 4
    /\ Len(frame.llm_context.relevant_memories) = 3

\* The place of a section in the prompt.
SectionRank(section) ==
    CASE section = "greeting" -> 1
      [] section = "location" -> 2
      [] section = "memories" -> 3
      [] section = "history" -> 4

\* A value of the session is absent or is the sentinel "unknown".
AbsentOrSentinel(v) == ~ Truthy(v) \/ v = Str(<<"unknown">>)

\* C22: the prompt made for a session holds its sections in the order
\* greeting, location, memories, conversation, and a section is there exactly
\* when its data is: the greeting when the student name is set, the location
\* when the location is set, the memories when records were retrieved, the
\* conversation when the history is not empty. A session whose identity was
\* never set gets no greeting line.
C22_SectionsInOrderOrOmitted ==
    (req.op = "speech" /\ pc = "generate") =>
        LET lines == frame.context_text
            session == session_contexts[req.session_id]
            Has(section) == \E i \in DOMAIN lines : lines[i].section = section
        IN  /\ \A i, j \in DOMAIN lines :
                  i < j => SectionRank(lines[i].section) <= SectionRank(lines[j].section)
            /\ Has("greeting") <=> ~ AbsentOrSentinel(session.student_name)
            /\ Has("location") <=> ~ AbsentOrSentinel(session.current_location)
            /\ Has("memories") <=> frame.memories # <<>>
            /\ Has("history") <=> session.conversation_history # <<>>

\* C23: the context build_llm_context returns for a session whose student_id,
\* student_name or current_location was never set carries the text "unknown"
\* in that place, and the value of the session when it was set.
C23_UnknownWhenNeverSet ==
    (req.op = "speech" /\ pc = "generate") =>
        LET session == session_contexts[req.session_id]
            Reported(v) == IF v = NoneV THEN Str(<<"unknown">>) ELSE v
        IN  /\ frame.llm_context.student_info.id = Reported(session.student_id)
            /\ frame.llm_context.student_info.name = Reported(session.student_name)
            /\ frame.llm_context.current_location = Reported(session.current_location)

\* C24: the intent of every reply of /speech/input is "navigation",
\* "conversation" or "clarification": an intent of the LLM output that is
\* neither "navigation" nor "conversation" is answered as "conversation",
\* with no navigation.
C24_IntentIsOneOfThree ==
    (SpeechDone /\ reply.status = 200) =>
        /\ reply.intent \in {Str(<<"navigation">>), Str(<<"conversation">>),
                             Str(<<"clarification">>)}
        /\ (/\ SpeechAccepted
            /\ OutputIntent \notin {Str(<<"navigation">>), Str(<<"conversation">>)})
              => /\ reply.intent = Str(<<"conversation">>)
                 /\ ~ reply.should_navigate

\* TyphoonClient.chat returned no text / a text that json.loads refuses.
NoTextReturned == Len(trace) = 2 /\ ~ Truthy(frame.chat)
TextFailedToDecode ==
    /\ Len(trace) = 2
    /\ Truthy(frame.chat)
    /\ ~ json_loads(StripFences(frame.chat.s)).ok

\* What process_speech has in hand of the LLM call and what it answers.
Outcome == [llm_output |-> frame.llm_output, reply |-> reply]

\* C25: process_speech tells an LLM text that failed to decode from an LLM
\* that returned no text: the outcome of the first (what generate_structured
\* hands back and the reply of the request) is not the outcome of the second,
\* which is no output and HTTP 500.
C25_DecodeFailureIsDistinct ==
    (SpeechAccepted /\ TextFailedToDecode) =>
        Outcome # [llm_output |-> NoneV, reply |-> HttpError(500)]

\* C26: the handler of an accepted request takes its steps in the order user
\* turn, memory retrieval and context composition, generation and parsing,
\* navigation decision, assistant turn, response: the navigation decision
\* comes before the assistant turn is appended, and after the assistant turn
\* only the response is left.
C26_StepsInOrder ==
    [][/\ pc = "gate" => pc' \in {"user_turn", "done"}
       /\ pc = "user_turn" => pc' = "retrieve"
       /\ pc = "retrieve" => pc' \in {"generate", "blocked", "done"}
       /\ pc = "generate" => pc' \in {"resolve", "blocked", "done"}
       /\ pc = "resolve" => pc' = "persist"
       /\ pc = "persist" => pc' = "done"]_vars

\* The turns the request in hand has added to the history of its session.
AddedTurns ==
    LET before == History(pre, req.session_id)
        after == History(session_contexts, req.session_id)
    IN  SubSeq(after, Len(before) + 1, Len(after))

\* C28: when a /speech/input request has ended, the history of its session is
\* the history before the request followed by the turns of the request, which
\* are none (rejected at the gate), the user turn alone (failure after the
\* gate) or the user turn followed by an assistant turn; an assistant turn
\* never comes without its user turn.
C28_TurnsOfOneRequest ==
    SpeechDone =>
        LET before == History(pre, req.session_id)
            after == History(session_contexts, req.session_id)
            user == Turn("user", req.text, clock)
        IN  /\ Len(after) >= Len(before)
            /\ SubSeq(after, 1, Len(before)) = before
            /\ \/ AddedTurns = <<>>
               \/ AddedTurns = <<user>>
               \/ /\ Len(AddedTurns) = 2
                  /\ AddedTurns[1] = user
                  /\ AddedTurns[2].role = "assistant"
            /\ SpeechRejected <=> AddedTurns = <<>>

\* C28 witness: an accepted request failed after the gate and its user turn
\* alone was added to a history that held turns already.
C28_Witness ==
    /\ SpeechAccepted
    /\ reply.status = 500
    /\ History(pre, req.session_id) # <<>>
    /\ Len(AddedTurns) = 1

\* C29: a /speech/input request that has appended an assistant turn ends with
\* a successful reply whose response_text is the content of that turn.
C29_AssistantTurnMeansReply ==
    (SpeechDone /\ Len(AddedTurns) = 2) =>
        /\ reply.status = 200
        /\ reply.response_text = AddedTurns[2].content

\* A request on another session than the one being served waits in flight.
OtherSessionWaits ==
    \E i \in DOMAIN inflight : inflight[i].session_id # req.session_id

\* C27: requests on different sessions do not block each other: while the
\* handler of a request is in its LLM call, the handler of a request in flight
\* on another session can be started.
C27_OtherSessionsNotBlocked ==
    (pc = "generate" /\ OtherSessionWaits) => ENABLED Start

\* C30: turns are append-only. A ContextBuilder call other than
\* create_session and clear_session leaves every turn of every history as it
\* was and where it was, but for add_conversation_turn on its own session:
\* after it the history is a contiguous suffix of the history before, turn
\* for turn unchanged, followed by the new turn.
C30_TurnsAreAppendOnly ==
    (req.op \notin {"none", "create_session", "clear_session"}) =>
        \A sid \in SessionIds :
            LET old == History(pre, sid)
                new == History(session_contexts, sid)
            IN  IF req.op = "add_conversation_turn" /\ sid = req.session_id
                THEN \E k \in 0 .. Len(old) :
                        new = SubSeq(old, k + 1, Len(old))
                              \o <<Turn(req.args.role, req.args.content, clock)>>
                ELSE new = old

\* C30 witness: a turn was added to a history of max_history turns, the
\* oldest turn left and the second oldest is now the first.
C30_Witness ==
    /\ req.op = "add_conversation_turn"
    /\ Len(History(pre, req.session_id)) = max_history
    /\ Len(History(session_contexts, req.session_id)) = max_history
    /\ History(session_contexts, req.session_id)[1] = History(pre, req.session_id)[2]

\* C31: sessions are isolated: while a request addressed to a session id is
\* served and when it has ended, every other session id is in the store
\* exactly when it was before the request, with its whole state as it was.
C31_SessionsAreIsolated ==
    (req.op # "none") =>
        \A sid \in SessionIds \ {req.session_id} :
            /\ sid \in DOMAIN session_contexts <=> sid \in DOMAIN pre
            /\ sid \in DOMAIN pre => session_contexts[sid] = pre[sid]

\* C31 witness: a request has changed or deleted its session while another
\* session with turns of its own was in the store.
C31_Witness ==
    /\ pc = "done"
    /\ req.session_id \in DOMAIN pre
    /\ \/ req.session_id \notin DOMAIN session_contexts
       \/ session_contexts[req.session_id] # pre[req.session_id]
    /\ \E sid \in SessionIds \ {req.session_id} :
          /\ sid \in DOMAIN session_contexts
          /\ History(session_contexts, sid) # <<>>

\* C32: a /speech/input request rejected at the gate leaves the whole store
\* as it was: an absent session is not created, so that a GET that follows
\* is answered 404, and a stored session keeps its last_updated.
C32_RejectionTouchesNothing ==
    /\ SpeechRejected => session_contexts = pre
    /\ (/\ pc = "done"
        /\ req.op = "get"
        /\ prev.op = "speech"
        /\ prev.session_id = req.session_id
        /\ prev.absent
        /\ accepted[req.session_id] = <<>>)
          => reply.status = 404

\* C32 witness: a request was rejected on a session that was stored at an
\* earlier time of the clock.
C32_Witness ==
    /\ SpeechRejected
    /\ req.session_id \in DOMAIN pre
    /\ pre[req.session_id].last_updated < clock

\* C33: a /speech/input request whose confidence equals the threshold is
\* accepted: its user turn is appended and the memory gateway and the LLM
\* gateway are called.
C33_ThresholdIsAccepted ==
    (SpeechDone /\ req.confidence = confidence_threshold) =>
        /\ trace = <<"search_memory", "generate_structured">>
           \/ trace = <<"search_memory:error", "generate_structured">>
        /\ AddedTurns # <<>>
        /\ AddedTurns[1] = Turn("user", req.text, clock)
        /\ reply # Clarification

\* C33 witness: a request with the threshold as its confidence was answered
\* from the LLM output.
C33_Witness ==
    /\ SpeechDone
    /\ req.confidence = confidence_threshold
    /\ reply.status = 200
    /\ Len(AddedTurns) = 2

\* C34: /context/update on a session that is stored does not create it
\* again: its conversation history, its created_at and its session_id stay,
\* and every field for which the body has no value or an empty one keeps the
\* value it had, whatever the requests before.
C34_UpdateKeepsTheSession ==
    (pc = "done" /\ req.op = "context" /\ req.session_id \in DOMAIN pre) =>
        /\ req.session_id \in DOMAIN session_contexts
        /\ LET old == pre[req.session_id]
               new == session_contexts[req.session_id]
           IN  /\ new.conversation_history = old.conversation_history
               /\ new.created_at = old.created_at
               /\ new.session_id = old.session_id
               /\ ~ Truthy(req.body.student_id) => new.student_id = old.student_id
               /\ ~ Truthy(req.body.student_name) =>
                     new.student_name = old.student_name
               /\ ~ Truthy(req.body.location) =>
                     new.current_location = old.current_location
               /\ ~ Truthy(req.body.environment_data) =>
                     new.environment_info = old.environment_info

\* C34 witness: a body with environment data and no name has been applied to
\* a session that had a name and turns.
C34_Witness ==
    /\ pc = "done"
    /\ req.op = "context"
    /\ req.session_id \in DOMAIN pre
    /\ pre[req.session_id].student_name # NoneV
    /\ History(pre, req.session_id) # <<>>
    /\ ~ Truthy(req.body.student_name)
    /\ Truthy(req.body.environment_data)
    /\ session_contexts[req.session_id] # pre[req.session_id]

\* C35: on a stored session a mutation method changes its own field and
\* last_updated only: update_student_identity, update_location and
\* update_environment leave the history as it was, add_conversation_turn
\* leaves identity, location and environment as they were, each of the three
\* updates leaves the fields of the two others, and none of the four changes
\* session_id or created_at.
C35_OnlyItsOwnField ==
    (req.op \in MutationOps /\ req.session_id \in DOMAIN pre) =>
        /\ req.session_id \in DOMAIN session_contexts
        /\ LET old == pre[req.session_id]
               new == session_contexts[req.session_id]
           IN  /\ new.session_id = old.session_id
               /\ new.created_at = old.created_at
               /\ new.detected_faces = old.detected_faces
               /\ req.op # "add_conversation_turn" =>
                     new.conversation_history = old.conversation_history
               /\ req.op # "update_student_identity" =>
                     /\ new.student_id = old.student_id
                     /\ new.student_name = old.student_name
               /\ req.op # "update_location" =>
                     new.current_location = old.current_location
               /\ req.op # "update_environment" =>
                     new.environment_info = old.environment_info

\* C35 witness: a location is stored in a session created at an earlier time,
\* which has turns and an identity.
C35_Witness ==
    /\ req.op = "update_location"
    /\ req.session_id \in DOMAIN pre
    /\ History(pre, req.session_id) # <<>>
    /\ pre[req.session_id].student_id # NoneV
    /\ pre[req.session_id].created_at < clock
    /\ session_contexts[req.session_id].current_location
          # pre[req.session_id].current_location

\* The handler served just before had deleted the session of this request.
AfterDelete == pc = "done" /\ prev.op = "delete" /\ prev.session_id = req.session_id

\* C36: after DELETE /session/{id} a GET on the id is answered 404, and the
\* next mutation makes a session that has nothing of the deleted one: after
\* an accepted speech input the history holds the turns of that request only
\* and identity, location and environment are empty; after a context update
\* the history is empty and the fields hold what the body gave and no more.
C36_NothingSurvivesADelete ==
    /\ (AfterDelete /\ req.op = "get") => reply.status = 404
    /\ (AfterDelete /\ SpeechAccepted) =>
          /\ req.session_id \in DOMAIN session_contexts
          /\ LET new == session_contexts[req.session_id]
             IN  /\ new.conversation_history = AddedTurns
                 /\ \A i \in DOMAIN new.conversation_history :
                       new.conversation_history[i].timestamp = clock
                 /\ new.student_id = NoneV
                 /\ new.student_name = NoneV
                 /\ new.current_location = NoneV
                 /\ new.environment_info = {}
                 /\ new.created_at = clock
    /\ (AfterDelete /\ req.op = "context") =>
          /\ req.session_id \in DOMAIN session_contexts
          /\ LET new == session_contexts[req.session_id]
                 both == Truthy(req.body.student_id) /\ Truthy(req.body.student_name)
             IN  /\ new.conversation_history = <<>>
                 /\ new.created_at = clock
                 /\ new.student_id = IF both THEN req.body.student_id ELSE NoneV
                 /\ new.student_name = IF both THEN req.body.student_name ELSE NoneV
                 /\ new.current_location =
                       IF Truthy(req.body.location) THEN req.body.location ELSE NoneV
                 /\ new.environment_info =
                       IF Truthy(req.body.environment_data)
                       THEN req.body.environment_data.d
                       ELSE {}

\* C36 witness: an accepted speech input was answered from the LLM output
\* just after the delete of its session, which was stored.
C36_Witness ==
    /\ AfterDelete
    /\ ~ prev.absent
    /\ SpeechAccepted
    /\ reply.status = 200

\* C37: in a session whose history is changed by /speech/input only, the
\* assistant turn of a request comes directly after the user turn of the same
\* request, whatever the order in which the requests in flight are served: no
\* turn of another request is between the two.
C37_AssistantFollowsItsUser ==
    \A sid \in SessionIds :
        LET history == History(session_contexts, sid)
        IN  \A i \in DOMAIN history :
                history[i].role = "assistant" =>
                    /\ i > 1
                    /\ history[i - 1].role = "user"
                    /\ history[i - 1].timestamp = history[i].timestamp

\* C37 witness: the second answered request of a session has ended, its two
\* turns are the last of four, and another speech request on the session is
\* in flight.
C37_Witness ==
    /\ SpeechDone
    /\ reply.status = 200
    /\ Len(History(session_contexts, req.session_id)) = 4
    /\ Len(AddedTurns) = 2
    /\ \E i \in DOMAIN inflight :
          /\ inflight[i].session_id = req.session_id
          /\ inflight[i].op = "speech"

\* C38: the context handed to the LLM for an accepted request holds the
\* utterance of the request: the user turn is appended before
\* build_llm_context, and the last turn of the conversation_history of the
\* built context is the user turn of the request being served.
C38_ContextHoldsTheUtterance ==
    (req.op = "speech" /\ pc = "generate") =>
        LET history == frame.llm_context.conversation_history
        IN  /\ history # <<>>
            /\ history[Len(history)] = Turn("user", req.text, clock)

\* C38 witness: the context is built for a request on a session that had
\* turns already.
C38_Witness ==
    /\ req.op = "speech"
    /\ pc = "generate"
    /\ History(pre, req.session_id) # <<>>
    /\ Len(frame.llm_context.conversation_history) >= 3

\* The request being served is a /voice/interact whose transcription failed.
FailedTranscription ==
    req.op = "voice" /\ req.text = SttFailure.text /\ req.confidence = SttFailure.confidence

\* C39: a /voice/interact request whose transcription failed (text "",
\* confidence 0.0, below the threshold) never reaches the memory gateway or
\* the LLM gateway: process_speech answers it at the gate with the
\* clarification reply, which is what the audio response carries, and the
\* store, the history of the session included, stays as it was.
C39_FailedTranscriptionStopsAtTheGate ==
    FailedTranscription =>
        /\ pc \in {"gate", "done", "answered"}
        /\ session_contexts = pre
        /\ \A i \in DOMAIN trace : trace[i] \in {"synthesize", "synthesize:error"}
        /\ pc = "done" => reply = Clarification
        /\ (pc = "answered" /\ reply.status = 200) => reply = Clarification

\* C39 witness: the clarification reply was synthesized for a failed
\* transcription on a session that holds turns.
C39_Witness ==
    /\ FailedTranscription
    /\ pc = "answered"
    /\ reply = Clarification
    /\ History(session_contexts, req.session_id) # <<>>

====
